---- MODULE Spec2Model ----
(***************************************************************************)
(* Model of the shoe-brand backend: JWT authentication, role and brand     *)
(* scoped access control over the user store and the shoe store.           *)
(*                                                                         *)
(* The state is the two stores, the clock, the tokens the clients hold,    *)
(* the last response and the requests under way.  In the first four        *)
(* specifications every request handler (with the middleware in front of   *)
(* it) is one action: a request runs to completion before the next one     *)
(* starts and every store call returns.                                    *)
(*                                                                         *)
(*   Spec       registration, login and user management, from empty stores *)
(*   SpecShoes  the shoe routes, used by three registered clients          *)
(*   SpecGate   every protected route under every kind of Authorization    *)
(*              header, while time passes and users are changed            *)
(*   SpecAll    all nine routes, with a request for each way a handler     *)
(*              ends                                                       *)
(*                                                                         *)
(* A property of the answer to every request is stated over the Step       *)
(* operators, which give the response and the stores a request leaves in   *)
(* the current state; the actions install exactly these.                   *)
(*                                                                         *)
(* In SpecRace and SpecCalls a handler takes a step for each store call it *)
(* awaits, so that the handlers of several requests interleave:            *)
(*                                                                         *)
(*   SpecRace   shoe updates, deletions and registrations that race        *)
(*   SpecCalls  all nine routes, store calls that return or fail, under    *)
(*              the fairness that every awaited call ends                  *)
(***************************************************************************)
EXTENDS Integers, FiniteSets, Sequences, TLC

VARIABLES users, shoes, nextUserId, nextShoeId, now, issued, resp, calls

vars == <<users, shoes, nextUserId, nextShoeId, now, issued, resp, calls>>

----------------------------------------------------------------------------
(* Bounds of the model *)

\* user ids and shoe ids ever handed out, ticks of the clock, and tokens the
\* clients hold in Spec
MaxUsers == 2
MaxShoes == 2
MaxTime == 2
MaxTokens == 1

(* '1d' of authController.js:33, in ticks of the model clock *)
TokenTTL == 2

----------------------------------------------------------------------------
(* JavaScript values *)

\* the JavaScript value undefined, for string-valued fields
Undef == "<undefined>"

\* the JavaScript value null, for string-valued fields
Null == "<null>"

\* !x for a string-valued field: undefined, null and the empty string are
\* falsy
Falsy(x) == x = Undef \/ x = Null \/ x = ""

\* numbers are <<n>>, a missing number is <<>>
NoNum == <<>>

Num(n) == <<n>>

\* !x for a number-valued field: undefined and 0 are falsy
FalsyNum(x) == x = NoNum \/ x = Num(0)

\* a || b for strings and for numbers
OrElse(a, b) == IF Falsy(a) THEN b ELSE a

OrElseNum(a, b) == IF FalsyNum(a) THEN b ELSE a

----------------------------------------------------------------------------
(* Schemas *)

\* an enum that has a third role
RoleEnum_WithManager == {"brand_user", "super_admin", "manager"}

RoleEnum == {"brand_user", "super_admin"}

ShoeBrandEnum == {"Nike", "Adidas", "Puma"}

\* a user schema whose brand is never required
UserValid_BrandOptional(doc) ==
    /\ ~Falsy(doc.name)
    /\ ~Falsy(doc.email)
    /\ DOMAIN doc.password = {"pw", "salt"}
    /\ doc.role \in {"brand_user", "super_admin"}

\* userSchema validation run by save(): required name, email, password (a
\* digest), brand required when role is brand_user, role in the enum
UserValid(doc) ==
    /\ ~Falsy(doc.name)
    /\ ~Falsy(doc.email)
    /\ DOMAIN doc.password = {"pw", "salt"}
    /\ (doc.role = "brand_user" => ~Falsy(doc.brand))
    /\ doc.role \in RoleEnum

\* shoeSchema validation run by create() and save()
ShoeValid(doc) ==
    /\ ~Falsy(doc.name)
    /\ doc.brand \in ShoeBrandEnum
    /\ doc.price # NoNum

----------------------------------------------------------------------------
(* Password hashing (bcryptjs) *)

Salts == {1}

\* bcrypt.hash(password, 10): a digest bound to the password and a salt
bcryptHash(password, salt) == [pw |-> password, salt |-> salt]

\* bcrypt.compare(password, digest) for a string password
bcryptCompare(password, digest) == digest.pw = password

----------------------------------------------------------------------------
(* Token codec (jsonwebtoken) *)

NoToken == [kind |-> "none"]

EmptyToken == [kind |-> "empty"]

GarbageToken == [kind |-> "garbage"]

\* claims that leave the brand out
Claims_NoBrand(user, id, t) ==
    [userId |-> id, role |-> user.role, iat |-> t, exp |-> t + TokenTTL]

\* the claims { userId, brand, role }: JSON drops a key whose value is
\* undefined, and sign() adds iat and exp
Claims(user, id, t) ==
    IF user.brand = Undef
    THEN [userId |-> id, role |-> user.role, iat |-> t, exp |-> t + TokenTTL]
    ELSE [userId |-> id, brand |-> user.brand, role |-> user.role,
          iat |-> t, exp |-> t + TokenTTL]

\* the signature of a payload under a key: it binds the key and the payload
Signature(key, payload) == [key |-> key, over |-> payload]

\* generateToken(user): jwt.sign of the claims with process.env.JWT_SECRET
generateToken(user, id, t) ==
    [kind |-> "jwt", payload |-> Claims(user, id, t),
     sig |-> Signature("JWT_SECRET", Claims(user, id, t))]

\* jwt.verify that does not look at the expiry
jwtVerify_NoExpiry(token, t) ==
    IF token.kind # "jwt" THEN [ok |-> FALSE, err |-> "JsonWebTokenError"]
    ELSE IF token.sig # Signature("JWT_SECRET", token.payload)
         THEN [ok |-> FALSE, err |-> "JsonWebTokenError"]
    ELSE [ok |-> TRUE, decoded |-> token.payload]

\* jwt.verify(token, secret): the decoded payload, or an error for an
\* empty or malformed token, a signature that is not the secret's signature
\* of the payload, or an expired token
jwtVerify(token, t) ==
    IF token.kind # "jwt" THEN [ok |-> FALSE, err |-> "JsonWebTokenError"]
    ELSE IF token.sig # Signature("JWT_SECRET", token.payload)
         THEN [ok |-> FALSE, err |-> "JsonWebTokenError"]
    ELSE IF t >= token.payload.exp THEN [ok |-> FALSE, err |-> "TokenExpiredError"]
    ELSE [ok |-> TRUE, decoded |-> token.payload]

\* req.user.brand: undefined when the token carries no brand
BrandOf(user) == IF "brand" \in DOMAIN user THEN user.brand ELSE Undef

NoPrincipal == [role |-> Undef]

----------------------------------------------------------------------------
(* Authentication gate and authorization gate *)

\* An Authorization header is modelled by its split on ' ': the text before
\* the first space (scheme) and the segments after it (parts); a header
\* without any space has no parts, two adjacent spaces give an empty segment.
NoHeader == [present |-> FALSE, scheme |-> "", parts |-> <<>>]

Header(scheme, parts) == [present |-> TRUE, scheme |-> scheme, parts |-> parts]

\* authHeader.startsWith('Bearer ')
StartsWithBearer(h) == h.scheme = "Bearer" /\ Len(h.parts) >= 1

\* a gate that also looks the user up and refuses a token whose user is gone
\* or has another role or brand by now
authMiddleware_Revoking(h, t) ==
    IF ~h.present \/ ~StartsWithBearer(h)
    THEN [next |-> FALSE, status |-> 401, message |-> "No token provided",
          user |-> NoPrincipal]
    ELSE IF /\ jwtVerify(h.parts[1], t).ok
            /\ jwtVerify(h.parts[1], t).decoded.userId \in DOMAIN users
            /\ users[jwtVerify(h.parts[1], t).decoded.userId].role
                  = jwtVerify(h.parts[1], t).decoded.role
            /\ users[jwtVerify(h.parts[1], t).decoded.userId].brand
                  = BrandOf(jwtVerify(h.parts[1], t).decoded)
         THEN [next |-> TRUE, status |-> 0, message |-> "",
               user |-> jwtVerify(h.parts[1], t).decoded]
         ELSE [next |-> FALSE, status |-> 401, message |-> "Invalid token",
               user |-> NoPrincipal]

\* a gate that calls next() after its try and catch: a request whose token
\* does not verify is answered 401 and handed on all the same
authMiddleware_NextAfterCatch(h, t) ==
    IF ~h.present \/ ~StartsWithBearer(h)
    THEN [next |-> FALSE, status |-> 401, message |-> "No token provided",
          user |-> NoPrincipal]
    ELSE IF jwtVerify(h.parts[1], t).ok
         THEN [next |-> TRUE, status |-> 0, message |-> "",
               user |-> jwtVerify(h.parts[1], t).decoded]
         ELSE [next |-> TRUE, status |-> 401, message |-> "Invalid token",
               user |-> NoPrincipal]

\* authMiddleware: 401 unless the header carries a bearer token that
\* verifies; the decoded claims become req.user
authMiddleware(h, t) ==
    IF ~h.present \/ ~StartsWithBearer(h)
    THEN [next |-> FALSE, status |-> 401, message |-> "No token provided",
          user |-> NoPrincipal]
    ELSE IF jwtVerify(h.parts[1], t).ok
         THEN [next |-> TRUE, status |-> 0, message |-> "",
               user |-> jwtVerify(h.parts[1], t).decoded]
         ELSE [next |-> FALSE, status |-> 401, message |-> "Invalid token",
               user |-> NoPrincipal]

\* a role check that lets every role through
roleMiddleware_AnyRole(roles, user) == [next |-> TRUE, status |-> 0, message |-> ""]

\* roleMiddleware(roles): 403 unless req.user.role is one of roles
roleMiddleware(roles, user) ==
    IF user.role \notin roles
    THEN [next |-> FALSE, status |-> 403,
          message |-> "Access forbidden: insufficient permissions"]
    ELSE [next |-> TRUE, status |-> 0, message |-> ""]

\* routes whose router starts with router.use(authMiddleware)
UsesAuth(op) ==
    op \in {"getShoes", "createShoe", "updateShoe", "deleteShoe",
            "getUsers", "deleteUser", "updateUser"}

\* routes whose router adds router.use(roleMiddleware(['super_admin']))
UsesRole(op) == op \in {"getUsers", "deleteUser", "updateUser"}

\* the outcome of the middleware chain of a route for a request header
Gate(op, h, t) ==
    LET a == authMiddleware(h, t)
        r == roleMiddleware({"super_admin"}, a.user)
    IN  IF ~UsesAuth(op)
        THEN [next |-> TRUE, status |-> 0, message |-> "", user |-> NoPrincipal]
        ELSE IF ~a.next THEN a
        ELSE IF UsesRole(op) /\ ~r.next
             THEN [next |-> FALSE, status |-> r.status, message |-> r.message,
                   user |-> a.user]
        ELSE a

----------------------------------------------------------------------------
(* Document ids *)

\* Stored documents have the ids 1, 2, ...; MalformedId stands for a route
\* parameter that is no ObjectId (such as 'abc')
MalformedId == 0

\* findById casts its argument to an ObjectId and rejects with a CastError
\* when it cannot; the handler's catch then answers 500
ValidObjectId(id) == id # MalformedId

----------------------------------------------------------------------------
(* Shoe handlers: each gives the response and the shoe store it leaves *)

NoData == [none |-> TRUE]

\* a stored shoe as it is serialised in a response
ShoeDoc(store, id) ==
    [id |-> id, name |-> store[id].name, brand |-> store[id].brand,
     price |-> store[id].price, description |-> store[id].description]

\* getShoes without its brand filter
ShoeQuery_Unfiltered(user) == [all |-> TRUE, brand |-> Undef]

\* the query of getShoes: {} for a super_admin, { brand } otherwise
ShoeQuery(user) ==
    IF user.role = "super_admin"
    THEN [all |-> TRUE, brand |-> Undef]
    ELSE [all |-> FALSE, brand |-> BrandOf(user)]

\* a find that matches on the brand whatever the query
ShoeFind_BrandOnly(store, query) ==
    {ShoeDoc(store, id) : id \in {i \in DOMAIN store :
                                    store[i].brand = query.brand}}

\* Shoe.find(query)
ShoeFind(store, query) ==
    {ShoeDoc(store, id) : id \in {i \in DOMAIN store :
                                    query.all \/ store[i].brand = query.brand}}

getShoes(user, store) ==
    [status |-> 200, message |-> "", data |-> ShoeFind(store, ShoeQuery(user)),
     shoes |-> store]

\* the document createShoe hands to Shoe.create
NewShoe(body) ==
    [name |-> body.name, price |-> body.price,
     description |-> body.description, brand |-> body.brand]

createShoe(user, body, store, id) ==
    IF user.role = "brand_user" /\ body.brand # BrandOf(user)
    THEN [status |-> 403, message |-> "Cannot create shoe for another brand",
          data |-> NoData, shoes |-> store]
    ELSE IF ~ShoeValid(NewShoe(body))
    THEN [status |-> 500, message |-> "Error creating shoe",
          data |-> NoData, shoes |-> store]
    ELSE [status |-> 201, message |-> "",
          data |-> [id |-> id] @@ NewShoe(body),
          shoes |-> (id :> NewShoe(body)) @@ store]

\* a merge that keeps the stored value only for a field that is undefined
MergeShoe_Nullish(shoe, body) ==
    [name |-> IF body.name = Undef THEN shoe.name ELSE body.name,
     price |-> IF body.price = NoNum THEN shoe.price ELSE body.price,
     description |-> IF body.description = Undef THEN shoe.description
                     ELSE body.description,
     brand |-> IF body.brand = Undef THEN shoe.brand ELSE body.brand]

\* the falsy-means-absent merge of updateShoe
MergeShoe(shoe, body) ==
    [name |-> OrElse(body.name, shoe.name),
     price |-> OrElseNum(body.price, shoe.price),
     description |-> OrElse(body.description, shoe.description),
     brand |-> OrElse(body.brand, shoe.brand)]

\* updateShoe without the ownership check on the stored shoe
updateShoe_NoOwnerCheck(user, id, body, store) ==
    IF ~ValidObjectId(id)
    THEN [status |-> 500, message |-> "Error updating shoe",
          data |-> NoData, shoes |-> store]
    ELSE IF id \notin DOMAIN store
    THEN [status |-> 404, message |-> "Shoe not found",
          data |-> NoData, shoes |-> store]
    ELSE IF user.role = "brand_user" /\ ~Falsy(body.brand)
            /\ body.brand # BrandOf(user)
    THEN [status |-> 403, message |-> "Cannot change shoe brand to another brand",
          data |-> NoData, shoes |-> store]
    ELSE IF ~ShoeValid(MergeShoe(store[id], body))
    THEN [status |-> 500, message |-> "Error updating shoe",
          data |-> NoData, shoes |-> store]
    ELSE [status |-> 200, message |-> "",
          data |-> [id |-> id] @@ MergeShoe(store[id], body),
          shoes |-> [store EXCEPT ![id] = MergeShoe(store[id], body)]]

\* updateShoe without the check of the brand that the body asks for
updateShoe_NoBrandCheck(user, id, body, store) ==
    IF ~ValidObjectId(id)
    THEN [status |-> 500, message |-> "Error updating shoe",
          data |-> NoData, shoes |-> store]
    ELSE IF id \notin DOMAIN store
    THEN [status |-> 404, message |-> "Shoe not found",
          data |-> NoData, shoes |-> store]
    ELSE IF user.role = "brand_user" /\ store[id].brand # BrandOf(user)
    THEN [status |-> 403, message |-> "Not authorized to update this shoe",
          data |-> NoData, shoes |-> store]
    ELSE IF ~ShoeValid(MergeShoe(store[id], body))
    THEN [status |-> 500, message |-> "Error updating shoe",
          data |-> NoData, shoes |-> store]
    ELSE [status |-> 200, message |-> "",
          data |-> [id |-> id] @@ MergeShoe(store[id], body),
          shoes |-> [store EXCEPT ![id] = MergeShoe(store[id], body)]]

updateShoe(user, id, body, store) ==
    IF ~ValidObjectId(id)
    THEN [status |-> 500, message |-> "Error updating shoe",
          data |-> NoData, shoes |-> store]
    ELSE IF id \notin DOMAIN store
    THEN [status |-> 404, message |-> "Shoe not found",
          data |-> NoData, shoes |-> store]
    ELSE IF user.role = "brand_user" /\ store[id].brand # BrandOf(user)
    THEN [status |-> 403, message |-> "Not authorized to update this shoe",
          data |-> NoData, shoes |-> store]
    ELSE IF user.role = "brand_user" /\ ~Falsy(body.brand)
            /\ body.brand # BrandOf(user)
    THEN [status |-> 403, message |-> "Cannot change shoe brand to another brand",
          data |-> NoData, shoes |-> store]
    ELSE IF ~ShoeValid(MergeShoe(store[id], body))
    THEN [status |-> 500, message |-> "Error updating shoe",
          data |-> NoData, shoes |-> store]
    ELSE [status |-> 200, message |-> "",
          data |-> [id |-> id] @@ MergeShoe(store[id], body),
          shoes |-> [store EXCEPT ![id] = MergeShoe(store[id], body)]]

\* a deleteShoe whose refusal tells the shoe it refuses to delete
deleteShoe_ShowsShoe(user, id, store) ==
    IF ~ValidObjectId(id)
    THEN [status |-> 500, message |-> "Error deleting shoe",
          data |-> NoData, shoes |-> store]
    ELSE IF id \notin DOMAIN store
    THEN [status |-> 404, message |-> "Shoe not found",
          data |-> NoData, shoes |-> store]
    ELSE IF user.role = "brand_user" /\ store[id].brand # BrandOf(user)
    THEN [status |-> 403, message |-> "Not authorized to delete this shoe",
          data |-> ShoeDoc(store, id), shoes |-> store]
    ELSE [status |-> 200, message |-> "Shoe deleted", data |-> NoData,
          shoes |-> [i \in DOMAIN store \ {id} |-> store[i]]]

deleteShoe(user, id, store) ==
    IF ~ValidObjectId(id)
    THEN [status |-> 500, message |-> "Error deleting shoe",
          data |-> NoData, shoes |-> store]
    ELSE IF id \notin DOMAIN store
    THEN [status |-> 404, message |-> "Shoe not found",
          data |-> NoData, shoes |-> store]
    ELSE IF user.role = "brand_user" /\ store[id].brand # BrandOf(user)
    THEN [status |-> 403, message |-> "Not authorized to delete this shoe",
          data |-> NoData, shoes |-> store]
    ELSE [status |-> 200, message |-> "Shoe deleted", data |-> NoData,
          shoes |-> [i \in DOMAIN store \ {id} |-> store[i]]]

----------------------------------------------------------------------------
(* User-management handlers: the response and the user store they leave *)

\* a view that is the whole document
UserView_WithPassword(store, id) ==
    [id |-> id, name |-> store[id].name, email |-> store[id].email,
     brand |-> store[id].brand, role |-> store[id].role,
     password |-> store[id].password]

\* a user document without its password field: select('-password')
UserView(store, id) ==
    [id |-> id, name |-> store[id].name, email |-> store[id].email,
     brand |-> store[id].brand, role |-> store[id].role]

\* a user document as res.json(user) serialises it, password included
UserDoc(id, doc) ==
    [id |-> id, name |-> doc.name, email |-> doc.email, brand |-> doc.brand,
     role |-> doc.role, password |-> doc.password]

getUsers(store) ==
    [status |-> 200, message |-> "",
     data |-> {UserView(store, id) : id \in DOMAIN store}, users |-> store]

deleteUser(id, store) ==
    IF ~ValidObjectId(id)
    THEN [status |-> 500, message |-> "Error deleting user",
          data |-> NoData, users |-> store]
    ELSE IF id \notin DOMAIN store
    THEN [status |-> 404, message |-> "User not found",
          data |-> NoData, users |-> store]
    ELSE [status |-> 200, message |-> "User deleted", data |-> NoData,
          users |-> [i \in DOMAIN store \ {id} |-> store[i]]]

\* the falsy-means-absent merge of updateUser
MergeUser(user, body) ==
    [user EXCEPT !.brand = OrElse(body.brand, user.brand),
                 !.role = OrElse(body.role, user.role)]

\* an updateUser whose save stores the document although validation fails
updateUser_SavesInvalid(id, body, store) ==
    IF ~ValidObjectId(id)
    THEN [status |-> 500, message |-> "Error updating user",
          data |-> NoData, users |-> store]
    ELSE IF id \notin DOMAIN store
    THEN [status |-> 404, message |-> "User not found",
          data |-> NoData, users |-> store]
    ELSE IF ~UserValid(MergeUser(store[id], body))
    THEN [status |-> 500, message |-> "Error updating user",
          data |-> NoData,
          users |-> [store EXCEPT ![id] = MergeUser(store[id], body)]]
    ELSE [status |-> 200, message |-> "",
          data |-> UserDoc(id, MergeUser(store[id], body)),
          users |-> [store EXCEPT ![id] = MergeUser(store[id], body)]]

updateUser(id, body, store) ==
    IF ~ValidObjectId(id)
    THEN [status |-> 500, message |-> "Error updating user",
          data |-> NoData, users |-> store]
    ELSE IF id \notin DOMAIN store
    THEN [status |-> 404, message |-> "User not found",
          data |-> NoData, users |-> store]
    ELSE IF ~UserValid(MergeUser(store[id], body))
    THEN [status |-> 500, message |-> "Error updating user",
          data |-> NoData, users |-> store]
    ELSE [status |-> 200, message |-> "",
          data |-> UserDoc(id, MergeUser(store[id], body)),
          users |-> [store EXCEPT ![id] = MergeUser(store[id], body)]]

----------------------------------------------------------------------------
(* Registration and login *)

\* User.findOne({ email }): the ids of the stored users with that email
FindByEmail(store, email) == {i \in DOMAIN store : store[i].email = email}

\* the first such user
FindOne(store, email) ==
    CHOOSE i \in FindByEmail(store, email) :
        \A j \in FindByEmail(store, email) : i <= j

\* the unique index on email: save() fails when another document has it
UniqueEmail(store, doc) == FindByEmail(store, doc.email) = {}

\* a role without the default
RoleOrDefault_NoDefault(body) == body.role

\* role = 'brand_user' when the body has no role
RoleOrDefault(body) == IF body.role = Undef THEN "brand_user" ELSE body.role

\* the document register builds: the brand is kept for a brand_user only
NewUser(body, salt) ==
    [name |-> body.name, email |-> body.email,
     password |-> bcryptHash(body.password, salt),
     role |-> RoleOrDefault(body),
     brand |-> IF RoleOrDefault(body) = "brand_user" THEN body.brand ELSE Undef]

\* register without the lookup of an existing user
register_NoLookup(body, store, id, salt, t) ==
    IF Falsy(body.name) \/ Falsy(body.email) \/ Falsy(body.password)
    THEN [status |-> 400, message |-> "Name, email, and password are required.",
          data |-> NoData, users |-> store]
    ELSE IF RoleOrDefault(body) = "brand_user" /\ Falsy(body.brand)
    THEN [status |-> 400, message |-> "Brand is required for brand users.",
          data |-> NoData, users |-> store]
    ELSE IF ~UserValid(NewUser(body, salt))
            \/ ~UniqueEmail(store, NewUser(body, salt))
    THEN [status |-> 500, message |-> "Server error during registration",
          data |-> NoData, users |-> store]
    ELSE [status |-> 201, message |-> "",
          data |-> [user |-> UserView((id :> NewUser(body, salt)), id),
                    token |-> generateToken(NewUser(body, salt), id, t)],
          users |-> (id :> NewUser(body, salt)) @@ store]

register(body, store, id, salt, t) ==
    IF Falsy(body.name) \/ Falsy(body.email) \/ Falsy(body.password)
    THEN [status |-> 400, message |-> "Name, email, and password are required.",
          data |-> NoData, users |-> store]
    ELSE IF RoleOrDefault(body) = "brand_user" /\ Falsy(body.brand)
    THEN [status |-> 400, message |-> "Brand is required for brand users.",
          data |-> NoData, users |-> store]
    ELSE IF FindByEmail(store, body.email) # {}
    THEN [status |-> 400, message |-> "Email already exists.",
          data |-> NoData, users |-> store]
    ELSE IF ~UserValid(NewUser(body, salt))
            \/ ~UniqueEmail(store, NewUser(body, salt))
    THEN [status |-> 500, message |-> "Server error during registration",
          data |-> NoData, users |-> store]
    ELSE [status |-> 201, message |-> "",
          data |-> [user |-> UserView((id :> NewUser(body, salt)), id),
                    token |-> generateToken(NewUser(body, salt), id, t)],
          users |-> (id :> NewUser(body, salt)) @@ store]

\* login without the comparison of the password
login_NoPasswordCheck(body, store, t) ==
    IF FindByEmail(store, body.email) = {}
    THEN [status |-> 400, message |-> "Invalid credentials.",
          data |-> NoData, users |-> store]
    ELSE [status |-> 200, message |-> "",
          data |-> [user |-> UserView(store, FindOne(store, body.email)),
                    token |-> generateToken(store[FindOne(store, body.email)],
                                            FindOne(store, body.email), t)],
          users |-> store]

\* bcrypt.compare rejects a password that is not a string, and login's
\* catch answers 500
login(body, store, t) ==
    IF FindByEmail(store, body.email) = {}
    THEN [status |-> 400, message |-> "Invalid credentials.",
          data |-> NoData, users |-> store]
    ELSE IF body.password = Undef
    THEN [status |-> 500, message |-> "Server error during login",
          data |-> NoData, users |-> store]
    ELSE IF ~bcryptCompare(body.password,
                           store[FindOne(store, body.email)].password)
    THEN [status |-> 400, message |-> "Invalid credentials.",
          data |-> NoData, users |-> store]
    ELSE [status |-> 200, message |-> "",
          data |-> [user |-> UserView(store, FindOne(store, body.email)),
                    token |-> generateToken(store[FindOne(store, body.email)],
                                            FindOne(store, body.email), t)],
          users |-> store]

----------------------------------------------------------------------------
(* Requests *)

Names == {"A"}
Emails == {"a@x.com", "b@x.com"}
Passwords == {"pw1"}
WrongPasswords == {"bad"}

\* bodies of POST /api/auth/register that carry name, email and password:
\* with or without a brand, with no role, either role, or an unknown role
CompleteRegisterBodies ==
    [name : Names, email : Emails, password : Passwords, brand : {"Nike", Undef},
     role : {Undef, "brand_user", "super_admin", "manager"}]

\* bodies in which name, email or password is missing or empty
IncompleteRegisterBodies ==
    LET b == [name |-> "A", email |-> "a@x.com", password |-> "pw1",
              brand |-> "Nike", role |-> Undef]
    IN  {[b EXCEPT !.name = v] : v \in {Undef, ""}}
        \cup {[b EXCEPT !.email = Undef]}
        \cup {[b EXCEPT !.password = v] : v \in {Undef, ""}}

RegisterBodies == CompleteRegisterBodies \cup IncompleteRegisterBodies

LoginBodies ==
    [email : Emails \cup {Undef},
     password : Passwords \cup WrongPasswords \cup {Undef}]

UpdateUserBodies ==
    [brand : {"Adidas", Undef}, role : RoleEnum \cup {Undef, "manager"}]

\* bodies of POST /api/shoes/create: the price is positive, negative or
\* missing, the brand is one of two brands or missing; one body has no
\* description
CreateShoeBodies ==
    [name : {"Air"}, price : {Num(10), Num(0 - 5), NoNum},
     description : {"d"}, brand : {"Nike", "Adidas", Undef}]
    \cup {[name |-> "Air", price |-> Num(10), description |-> Undef,
            brand |-> "Nike"]}

\* bodies of PUT /api/shoes/:id: partial updates, whose other fields are
\* missing or falsy (undefined, 0, null, the empty string)
UpdateShoeBodies ==
    [name : {Undef}, price : {Num(10), Num(0), NoNum},
     description : {Null, ""}, brand : {"Nike", "Adidas", Undef}]

ShoeBodies == CreateShoeBodies \cup UpdateShoeBodies

\* the :id of a route: an id that is or was or will be stored, or no ObjectId
UserIds == {MalformedId} \cup 1..MaxUsers

ShoeIds == {MalformedId} \cup 1..MaxShoes

\* Three registrations at time 0: a Nike brand_user (1), a super_admin (2)
\* and an Adidas brand_user (3); InitSeeded is the state they leave
SeedBody(email, brand, role) ==
    [name |-> "A", email |-> email, password |-> "pw1", brand |-> brand,
     role |-> role]

Seed1 == register(SeedBody("a@x.com", "Nike", Undef), << >>, 1, 1, 0)

Seed2 == register(SeedBody("b@x.com", Undef, "super_admin"), Seed1.users, 2, 1, 0)

Seed3 == register(SeedBody("c@x.com", "Adidas", Undef), Seed2.users, 3, 1, 0)

\* a token signed with a key that is not the server's secret
ForgedToken ==
    [kind |-> "jwt",
     payload |-> [userId |-> 1, role |-> "super_admin", iat |-> 0,
                  exp |-> MaxTime + TokenTTL + 1],
     sig |-> Signature("attacker", [userId |-> 1, role |-> "super_admin",
                                    iat |-> 0, exp |-> MaxTime + TokenTTL + 1])]

\* an issued token whose payload was altered and whose signature was kept
Tampered(tok) ==
    [tok EXCEPT !.payload = [tok.payload EXCEPT !.role = "super_admin",
                                                !.exp = MaxTime + TokenTTL + 1]]

\* the Authorization headers a client can send, given the tokens it holds
Headers ==
    {NoHeader, Header("Bearer", <<>>), Header("Bearer", <<EmptyToken>>),
     Header("Bearer", <<GarbageToken>>), Header("Bearer", <<ForgedToken>>)}
    \cup {Header("Bearer", <<tok>>) : tok \in issued}
    \cup {Header("Bearer", <<Tampered(Seed1.data.token)>>),
          Header("Basic", <<Seed2.data.token>>),
          Header("Bearer", <<EmptyToken, Seed2.data.token>>)}

\* the headers of the clients that send a token they were issued
TokenHeaders == {Header("Bearer", <<tok>>) : tok \in issued}

\* the response of a route: the gate's rejection, or the handler's outcome;
\* user is req.user as the gate left it
Reply(op, g, o) ==
    [op |-> op, user |-> g.user,
     status |-> IF g.next THEN o.status ELSE g.status,
     message |-> IF g.next THEN o.message ELSE g.message,
     data |-> IF g.next THEN o.data ELSE NoData]

\* a request: its route, header, :id and body
Request(op, h, id, body) == [op |-> op, h |-> h, id |-> id, body |-> body]

----------------------------------------------------------------------------
(* Requests in flight *)

\* the clients that can have a request in flight
Clients == {"c1", "c2"}

\* What the server holds of a client's request while its handler waits for a
\* store call: where the handler is (idle: no request; start: before its
\* first store call; loaded: between its load and its write; done:
\* finished), req.user, the document it loaded, and the number of responses
\* sent
Call(pc, req, user, doc, sent) ==
    [pc |-> pc, req |-> req, user |-> user, doc |-> doc, sent |-> sent]

NoRequest == Request("none", NoHeader, MalformedId, NoData)

NoCall == Call("idle", NoRequest, NoPrincipal, NoData, 0)

\* a request that has ended, with the number of responses it was sent
Done(sent) == Call("done", NoRequest, NoPrincipal, NoData, sent)

----------------------------------------------------------------------------
(* State machine: one action per request, the middleware chain included *)

Init ==
    /\ users = << >>
    /\ shoes = << >>
    /\ nextUserId = 1
    /\ nextShoeId = 1
    /\ now = 0
    /\ issued = {}
    /\ resp = [op |-> "init", user |-> NoPrincipal, status |-> 0,
               message |-> "", data |-> NoData]
    /\ calls = [c \in Clients |-> NoCall]

\* the client keeps the token it was sent, or drops it
Keep(tok) ==
    \/ issued' = issued
    \/ /\ Cardinality(issued \cup {tok}) <= MaxTokens
       /\ issued' = issued \cup {tok}

(* The effect of one request on the state it arrives in: the response  *)
(* and the two stores it leaves.                                        *)

\* POST /api/auth/register
RegisterStep(body, salt) ==
    LET g == Gate("register", NoHeader, now)
        o == register(body, users, nextUserId, salt, now)
    IN  [resp |-> Reply("register", g, o), users |-> o.users, shoes |-> shoes]

\* POST /api/auth/login
LoginStep(body) ==
    LET g == Gate("login", NoHeader, now)
        o == login(body, users, now)
    IN  [resp |-> Reply("login", g, o), users |-> o.users, shoes |-> shoes]

\* GET /api/users
GetUsersStep(h) ==
    LET g == Gate("getUsers", h, now)
        o == getUsers(users)
    IN  [resp |-> Reply("getUsers", g, o),
         users |-> IF g.next THEN o.users ELSE users, shoes |-> shoes]

\* DELETE /api/users/:id
DeleteUserStep(h, id) ==
    LET g == Gate("deleteUser", h, now)
        o == deleteUser(id, users)
    IN  [resp |-> Reply("deleteUser", g, o),
         users |-> IF g.next THEN o.users ELSE users, shoes |-> shoes]

\* PUT /api/users/:id
UpdateUserStep(h, id, body) ==
    LET g == Gate("updateUser", h, now)
        o == updateUser(id, body, users)
    IN  [resp |-> Reply("updateUser", g, o),
         users |-> IF g.next THEN o.users ELSE users, shoes |-> shoes]

\* GET /api/shoes
GetShoesStep(h) ==
    LET g == Gate("getShoes", h, now)
        o == getShoes(g.user, shoes)
    IN  [resp |-> Reply("getShoes", g, o), users |-> users,
         shoes |-> IF g.next THEN o.shoes ELSE shoes]

\* POST /api/shoes/create
CreateShoeStep(h, body) ==
    LET g == Gate("createShoe", h, now)
        o == createShoe(g.user, body, shoes, nextShoeId)
    IN  [resp |-> Reply("createShoe", g, o), users |-> users,
         shoes |-> IF g.next THEN o.shoes ELSE shoes]

\* PUT /api/shoes/:id
UpdateShoeStep(h, id, body) ==
    LET g == Gate("updateShoe", h, now)
        o == updateShoe(g.user, id, body, shoes)
    IN  [resp |-> Reply("updateShoe", g, o), users |-> users,
         shoes |-> IF g.next THEN o.shoes ELSE shoes]

\* DELETE /api/shoes/:id
DeleteShoeStep(h, id) ==
    LET g == Gate("deleteShoe", h, now)
        o == deleteShoe(g.user, id, shoes)
    IN  [resp |-> Reply("deleteShoe", g, o), users |-> users,
         shoes |-> IF g.next THEN o.shoes ELSE shoes]

\* a request that creates no document and issues no token
Answer(st) ==
    /\ resp' = st.resp
    /\ users' = st.users
    /\ shoes' = st.shoes
    /\ UNCHANGED <<nextUserId, nextShoeId, now, issued, calls>>

RegisterReq(body, salt) ==
    LET st == RegisterStep(body, salt)
    IN  IF st.resp.status = 201
        THEN /\ nextUserId <= MaxUsers
             /\ resp' = st.resp
             /\ users' = st.users
             /\ nextUserId' = nextUserId + 1
             /\ Keep(st.resp.data.token)
             /\ UNCHANGED <<shoes, nextShoeId, now, calls>>
        ELSE Answer(st)

LoginReq(body) ==
    LET st == LoginStep(body)
    IN  IF st.resp.status = 200
        THEN /\ resp' = st.resp
             /\ users' = st.users
             /\ Keep(st.resp.data.token)
             /\ UNCHANGED <<shoes, nextUserId, nextShoeId, now, calls>>
        ELSE Answer(st)

GetUsersReq(h) == Answer(GetUsersStep(h))

DeleteUserReq(h, id) == Answer(DeleteUserStep(h, id))

UpdateUserReq(h, id, body) == Answer(UpdateUserStep(h, id, body))

GetShoesReq(h) == Answer(GetShoesStep(h))

CreateShoeReq(h, body) ==
    LET st == CreateShoeStep(h, body)
    IN  IF st.resp.status = 201
        THEN /\ nextShoeId <= MaxShoes
             /\ resp' = st.resp
             /\ shoes' = st.shoes
             /\ nextShoeId' = nextShoeId + 1
             /\ UNCHANGED <<users, nextUserId, now, issued, calls>>
        ELSE Answer(st)

UpdateShoeReq(h, id, body) == Answer(UpdateShoeStep(h, id, body))

DeleteShoeReq(h, id) == Answer(DeleteShoeStep(h, id))

Register(B) == \E body \in B, salt \in Salts : RegisterReq(body, salt)

Login(B) == \E body \in B : LoginReq(body)

GetUsers(H) == \E h \in H : GetUsersReq(h)

DeleteUser(H) == \E h \in H, id \in UserIds : DeleteUserReq(h, id)

UpdateUser(H, B) == \E h \in H, id \in UserIds, body \in B : UpdateUserReq(h, id, body)

GetShoes(H) == \E h \in H : GetShoesReq(h)

CreateShoe(H, B) == \E h \in H, body \in B : CreateShoeReq(h, body)

UpdateShoe(H, B) == \E h \in H, id \in ShoeIds, body \in B : UpdateShoeReq(h, id, body)

DeleteShoe(H) == \E h \in H, id \in ShoeIds : DeleteShoeReq(h, id)

\* time passes
Tick ==
    /\ now < MaxTime
    /\ now' = now + 1
    /\ UNCHANGED <<users, shoes, nextUserId, nextShoeId, issued, resp, calls>>

\* Users and authentication, from the empty stores
Next ==
    \/ Register(RegisterBodies)
    \/ Login(LoginBodies)
    \/ GetUsers(TokenHeaders)
    \/ DeleteUser(TokenHeaders)
    \/ UpdateUser(TokenHeaders, UpdateUserBodies)

Spec == Init /\ [][Next]_vars

----------------------------------------------------------------------------
(* The shoe routes and the gate, from the state earlier registrations left *)

\* The state the three registrations leave, each client holding its token
InitSeeded ==
    /\ users = Seed3.users
    /\ shoes = << >>
    /\ nextUserId = 4
    /\ nextShoeId = 1
    /\ now = 0
    /\ issued = {Seed1.data.token, Seed2.data.token, Seed3.data.token}
    /\ resp = [op |-> "register", user |-> NoPrincipal,
               status |-> Seed3.status, message |-> Seed3.message,
               data |-> Seed3.data]
    /\ calls = [c \in Clients |-> NoCall]

\* The shoe routes, used by the three registered clients
NextShoes ==
    \/ GetShoes(TokenHeaders)
    \/ CreateShoe(TokenHeaders, CreateShoeBodies)
    \/ UpdateShoe(TokenHeaders, UpdateShoeBodies)
    \/ DeleteShoe(TokenHeaders)

SpecShoes == InitSeeded /\ [][NextShoes]_vars

\* The state the first two registrations leave
InitGate ==
    /\ users = Seed2.users
    /\ shoes = << >>
    /\ nextUserId = 3
    /\ nextShoeId = 1
    /\ now = 0
    /\ issued = {Seed1.data.token, Seed2.data.token}
    /\ resp = [op |-> "register", user |-> NoPrincipal,
               status |-> Seed2.status, message |-> Seed2.message,
               data |-> Seed2.data]
    /\ calls = [c \in Clients |-> NoCall]

\* the few bodies sent in SpecGate
GateShoeBodies ==
    {[name |-> "Air", price |-> Num(10), description |-> Undef, brand |-> "Nike"]}

GateUserBodies ==
    {[brand |-> "Adidas", role |-> Undef], [brand |-> Undef, role |-> "brand_user"]}

\* Every protected route under every kind of Authorization header, while
\* time passes and users are changed and deleted
NextGate ==
    \/ GetShoes(Headers)
    \/ CreateShoe(Headers, GateShoeBodies)
    \/ UpdateShoe(Headers, GateShoeBodies)
    \/ DeleteShoe(Headers)
    \/ GetUsers(Headers)
    \/ DeleteUser(Headers)
    \/ UpdateUser(Headers, GateUserBodies)
    \/ Tick

SpecGate == InitGate /\ [][NextGate]_vars

----------------------------------------------------------------------------
(* Every route at once, with a few requests for each way a handler ends *)

\* no header, or a token that was issued
AllHeaders == {NoHeader} \cup TokenHeaders

\* no name; no brand; a stored email; an unknown role; a new brand_user
AllRegisterBodies ==
    {SeedBody(e, b, r) : <<e, b, r>> \in {<<"c@x.com", Undef, Undef>>,
                                          <<"a@x.com", "Nike", Undef>>,
                                          <<"c@x.com", Undef, "manager">>,
                                          <<"c@x.com", "Adidas", Undef>>}}
    \cup {[SeedBody("c@x.com", "Adidas", Undef) EXCEPT !.name = Undef]}

\* an unknown email; a wrong password; no password; the right password
AllLoginBodies ==
    {[email |-> "z@x.com", password |-> "pw1"],
     [email |-> "a@x.com", password |-> "bad"],
     [email |-> "a@x.com", password |-> Undef],
     [email |-> "a@x.com", password |-> "pw1"]}

\* a new brand; an unknown role
AllUserBodies ==
    {[brand |-> "Adidas", role |-> Undef], [brand |-> Undef, role |-> "manager"]}

\* a Nike shoe; an Adidas shoe; a shoe without price
AllCreateBodies ==
    {[name |-> "Air", price |-> p, description |-> Undef, brand |-> b] :
        <<p, b>> \in {<<Num(10), "Nike">>, <<Num(10), "Adidas">>, <<NoNum, "Nike">>}}

\* { price: 0 }; another brand; a brand outside the enum
AllUpdateBodies ==
    {[name |-> Undef, price |-> p, description |-> Undef, brand |-> b] :
        <<p, b>> \in {<<Num(0), Undef>>, <<NoNum, "Adidas">>, <<NoNum, "Reebok">>}}

NextAll ==
    \/ Register(AllRegisterBodies)
    \/ Login(AllLoginBodies)
    \/ GetUsers(AllHeaders)
    \/ DeleteUser(AllHeaders)
    \/ UpdateUser(AllHeaders, AllUserBodies)
    \/ GetShoes(AllHeaders)
    \/ CreateShoe(AllHeaders, AllCreateBodies)
    \/ UpdateShoe(AllHeaders, AllUpdateBodies)
    \/ DeleteShoe(AllHeaders)

SpecAll == InitGate /\ [][NextAll]_vars

AllRequests ==
    {Request("register", NoHeader, MalformedId, b) : b \in AllRegisterBodies}
    \cup {Request("login", NoHeader, MalformedId, b) : b \in AllLoginBodies}
    \cup {Request(op, h, MalformedId, NoData) :
              op \in {"getUsers", "getShoes"}, h \in AllHeaders}
    \cup {Request(op, h, id, NoData) :
              op \in {"deleteUser"}, h \in AllHeaders, id \in UserIds}
    \cup {Request(op, h, id, NoData) :
              op \in {"deleteShoe"}, h \in AllHeaders, id \in ShoeIds}
    \cup {Request("updateUser", h, id, b) :
              h \in AllHeaders, id \in UserIds, b \in AllUserBodies}
    \cup {Request("createShoe", h, MalformedId, b) :
              h \in AllHeaders, b \in AllCreateBodies}
    \cup {Request("updateShoe", h, id, b) :
              h \in AllHeaders, id \in ShoeIds, b \in AllUpdateBodies}

\* the response a request gets in the current state and the stores it leaves
StepOf(r) ==
    CASE r.op = "register" -> RegisterStep(r.body, 1)
      [] r.op = "login" -> LoginStep(r.body)
      [] r.op = "getUsers" -> GetUsersStep(r.h)
      [] r.op = "deleteUser" -> DeleteUserStep(r.h, r.id)
      [] r.op = "updateUser" -> UpdateUserStep(r.h, r.id, r.body)
      [] r.op = "getShoes" -> GetShoesStep(r.h)
      [] r.op = "createShoe" -> CreateShoeStep(r.h, r.body)
      [] r.op = "updateShoe" -> UpdateShoeStep(r.h, r.id, r.body)
      [] r.op = "deleteShoe" -> DeleteShoeStep(r.h, r.id)

----------------------------------------------------------------------------
(* Handlers step by step: a step for each store call a handler awaits *)

\* the store without the documents of the ids F
Without(store, F) == [i \in DOMAIN store \ F |-> store[i]]

\* the handlers that await a second store call (save or deleteOne) after
\* their first (findOne or findById)
TwoCalls == {"register", "deleteUser", "updateUser", "updateShoe", "deleteShoe"}

\* the message a handler's catch block sends with status 500
CatchMessage(op) ==
    CASE op = "register" -> "Server error during registration"
      [] op = "login" -> "Server error during login"
      [] op = "getUsers" -> "Error fetching users"
      [] op = "deleteUser" -> "Error deleting user"
      [] op = "updateUser" -> "Error updating user"
      [] op = "getShoes" -> "Error fetching shoes"
      [] op = "createShoe" -> "Error creating shoe"
      [] op = "updateShoe" -> "Error updating shoe"
      [] op = "deleteShoe" -> "Error deleting shoe"

\* the handler of r reaches a store call: register answers a missing field,
\* and createShoe a foreign brand, before any
CallsStore(r, user) ==
    CASE r.op = "register" ->
            /\ ~(Falsy(r.body.name) \/ Falsy(r.body.email)
                   \/ Falsy(r.body.password))
            /\ ~(RoleOrDefault(r.body) = "brand_user" /\ Falsy(r.body.brand))
      [] r.op = "createShoe" ->
            ~(user.role = "brand_user" /\ r.body.brand # BrandOf(user))
      [] OTHER -> TRUE

\* st is what the handler of r would answer if it ran in one piece now: the
\* handler gets past the checks that follow its first store call and goes on
\* to its second
Loads(r, st) ==
    CASE r.op = "register" -> st.resp.status # 400
      [] r.op \in {"deleteUser", "deleteShoe"} -> st.resp.status = 200
      [] r.op = "updateUser" -> ValidObjectId(r.id) /\ st.resp.status # 404
      [] r.op = "updateShoe" ->
            ValidObjectId(r.id) /\ st.resp.status \notin {404, 403}
      [] OTHER -> FALSE

\* the document the handler holds between its two store calls: the new User
\* of register, or the document that findById returned
Loaded(r, salt) ==
    CASE r.op = "register" -> NewUser(r.body, salt)
      [] r.op \in {"deleteUser", "updateUser"} -> users[r.id]
      [] OTHER -> shoes[r.id]

\* doc.save() of a loaded document: only the paths that the handler's
\* assignments changed (old: as loaded, new: as assigned) are written to the
\* stored document cur
Modified(cur, old, new) ==
    [f \in DOMAIN cur |-> IF new[f] # old[f] THEN new[f] ELSE cur[f]]

Outcome(status, message, data, us, sh) ==
    [status |-> status, message |-> message, data |-> data, users |-> us,
     shoes |-> sh]

\* The second store call of a handler with what follows it: the outcomes it
\* can have on the stores as they are by now.  save() validates and, for a
\* new user, meets the unique index on email; a save() of a document that
\* was deleted in between writes nothing, and is answered 200 or 500
\* depending on whether the store adapter reports the missing document;
\* deleteOne() of a document that is gone deletes nothing.
Write(r, doc) ==
    CASE r.op = "register" ->
            IF ~UserValid(doc) \/ ~UniqueEmail(users, doc)
            THEN {Outcome(500, CatchMessage(r.op), NoData, users, shoes)}
            ELSE {Outcome(201, "",
                          [user |-> UserView((nextUserId :> doc), nextUserId),
                           token |-> generateToken(doc, nextUserId, now)],
                          (nextUserId :> doc) @@ users, shoes)}
      [] r.op = "deleteUser" ->
            {Outcome(200, "User deleted", NoData, Without(users, {r.id}), shoes)}
      [] r.op = "deleteShoe" ->
            {Outcome(200, "Shoe deleted", NoData, users, Without(shoes, {r.id}))}
      [] r.op = "updateUser" ->
            IF ~UserValid(MergeUser(doc, r.body))
            THEN {Outcome(500, CatchMessage(r.op), NoData, users, shoes)}
            ELSE IF r.id \notin DOMAIN users
            THEN {Outcome(200, "", UserDoc(r.id, MergeUser(doc, r.body)),
                          users, shoes),
                  Outcome(500, CatchMessage(r.op), NoData, users, shoes)}
            ELSE {Outcome(200, "", UserDoc(r.id, MergeUser(doc, r.body)),
                          [users EXCEPT ![r.id] =
                              Modified(users[r.id], doc, MergeUser(doc, r.body))],
                          shoes)}
      [] r.op = "updateShoe" ->
            IF ~ShoeValid(MergeShoe(doc, r.body))
            THEN {Outcome(500, CatchMessage(r.op), NoData, users, shoes)}
            ELSE IF r.id \notin DOMAIN shoes
            THEN {Outcome(200, "", [id |-> r.id] @@ MergeShoe(doc, r.body),
                          users, shoes),
                  Outcome(500, CatchMessage(r.op), NoData, users, shoes)}
            ELSE {Outcome(200, "", [id |-> r.id] @@ MergeShoe(doc, r.body),
                          users,
                          [shoes EXCEPT ![r.id] =
                              Modified(shoes[r.id], doc, MergeShoe(doc, r.body))])}

\* the createShoe requests that have arrived and not yet called Shoe.create
Creating ==
    {c \in Clients : calls[c].pc = "start" /\ calls[c].req.op = "createShoe"}

\* Client c sends request r.  A createShoe request is sent only while the
\* shoes created and being created stay within MaxShoes.
Arrive(c, r) ==
    /\ calls[c].pc \in {"idle", "done"}
    /\ r.op = "createShoe" => nextShoeId + Cardinality(Creating) <= MaxShoes
    /\ calls' = [calls EXCEPT ![c] = Call("start", r, NoPrincipal, NoData, 0)]
    /\ UNCHANGED <<users, shoes, nextUserId, nextShoeId, now, issued, resp>>

\* The request of c runs through the middleware chain and its handler up to
\* the handler's first store call and the checks on its result.  A gate
\* that answers has sent a response (status # 0); a gate that calls next()
\* lets the handler run.  The handler then either sends its response, or
\* holds a document and awaits its second store call.  (The token a login
\* returns is not added to the tokens in use: the headers of these
\* specifications are fixed.)
First(c) ==
    LET r == calls[c].req
        g == Gate(r.op, r.h, now)
        st == StepOf(r)
        n == IF g.status # 0 THEN 1 ELSE 0
    IN  /\ calls[c].pc = "start"
        /\ IF g.next /\ Loads(r, st)
           THEN /\ \E salt \in Salts :
                       calls' = [calls EXCEPT ![c] =
                                   Call("loaded", r, g.user, Loaded(r, salt), n)]
                /\ UNCHANGED <<users, shoes, nextUserId, nextShoeId, now,
                               issued, resp>>
           ELSE /\ calls' = [calls EXCEPT ![c] =
                               Done(IF g.next THEN n + 1 ELSE n)]
                /\ resp' = st.resp
                /\ users' = st.users
                /\ shoes' = st.shoes
                /\ nextShoeId' = IF DOMAIN st.shoes \subseteq DOMAIN shoes
                                 THEN nextShoeId ELSE nextShoeId + 1
                /\ UNCHANGED <<nextUserId, now, issued>>

\* The second store call of the request of c returns, and the handler sends
\* its response
Second(c) ==
    LET r == calls[c].req
    IN  /\ calls[c].pc = "loaded"
        /\ \E o \in Write(r, calls[c].doc) :
               /\ resp' = [op |-> r.op, user |-> calls[c].user,
                           status |-> o.status, message |-> o.message,
                           data |-> o.data]
               /\ users' = o.users
               /\ shoes' = o.shoes
               /\ nextUserId' = IF DOMAIN o.users \subseteq DOMAIN users
                                THEN nextUserId ELSE nextUserId + 1
        /\ calls' = [calls EXCEPT ![c] = Done(calls[c].sent + 1)]
        /\ UNCHANGED <<nextShoeId, now, issued>>

\* The store call that the request of c awaits fails: the handler's catch
\* block answers 500, and the handler ends
Fail(c) ==
    LET r == calls[c].req
        g == Gate(r.op, r.h, now)
        user == IF calls[c].pc = "start" THEN g.user ELSE calls[c].user
        n == IF calls[c].pc = "start" /\ g.status # 0 THEN 1 ELSE calls[c].sent
    IN  /\ \/ calls[c].pc = "loaded"
           \/ calls[c].pc = "start" /\ g.next /\ CallsStore(r, g.user)
        /\ resp' = [op |-> r.op, user |-> user, status |-> 500,
                    message |-> CatchMessage(r.op), data |-> NoData]
        /\ calls' = [calls EXCEPT ![c] = Done(n + 1)]
        /\ UNCHANGED <<users, shoes, nextUserId, nextShoeId, now, issued>>

\* the headers of the two registered clients
NikeHeader == Header("Bearer", <<Seed1.data.token>>)

AdminHeader == Header("Bearer", <<Seed2.data.token>>)

\* the shoe the Nike brand_user created first
SeedShoe ==
    createShoe(jwtVerify(Seed1.data.token, 0).decoded,
               [name |-> "Air", price |-> Num(10), description |-> "d",
                brand |-> "Nike"], << >>, 1)

\* The state after the two registrations and the creation of a Nike shoe
InitRace ==
    /\ users = Seed2.users
    /\ shoes = SeedShoe.shoes
    /\ nextUserId = 3
    /\ nextShoeId = 2
    /\ now = 0
    /\ issued = {Seed1.data.token, Seed2.data.token}
    /\ resp = [op |-> "createShoe", user |-> jwtVerify(Seed1.data.token, 0).decoded,
               status |-> SeedShoe.status, message |-> SeedShoe.message,
               data |-> SeedShoe.data]
    /\ calls = [c \in Clients |-> NoCall]

\* The requests that race: the brand_user changes the price of its shoe or
\* deletes it, the super_admin gives the shoe to another brand, and
\* somebody registers with an email that is not stored yet
RaceRequests ==
    {Request("updateShoe", NikeHeader, 1,
             [name |-> Undef, price |-> Num(20), description |-> Undef,
              brand |-> Undef]),
     Request("deleteShoe", NikeHeader, 1, NoData),
     Request("updateShoe", AdminHeader, 1,
             [name |-> Undef, price |-> NoNum, description |-> Undef,
              brand |-> "Adidas"]),
     Request("register", NoHeader, MalformedId, SeedBody("d@x.com", "Nike", Undef))}

\* Requests of the two clients whose handlers interleave at their store
\* calls; every store call returns
NextRace ==
    \/ \E c \in Clients, r \in RaceRequests : Arrive(c, r)
    \/ \E c \in Clients : First(c)
    \/ \E c \in Clients : Second(c)

SpecRace == InitRace /\ [][NextRace]_vars

\* Requests of every route: refused by a gate (no header, a forged token, a
\* role that is not allowed), answered by the handler before a store call,
\* after its first, and after its second
CallRequests ==
    {Request("register", NoHeader, MalformedId, b) :
        b \in {SeedBody("d@x.com", "Nike", Undef),
               [SeedBody("d@x.com", "Nike", Undef) EXCEPT !.name = Undef]}}
    \cup {Request("login", NoHeader, MalformedId,
                  [email |-> "a@x.com", password |-> "pw1"])}
    \cup {Request("getUsers", h, MalformedId, NoData) :
              h \in {AdminHeader, NikeHeader}}
    \cup {Request("deleteUser", AdminHeader, id, NoData) : id \in {MalformedId, 1}}
    \cup {Request("updateUser", AdminHeader, 1, [brand |-> "Nike", role |-> Undef])}
    \cup {Request("getShoes", h, MalformedId, NoData) :
              h \in {NoHeader, NikeHeader, Header("Bearer", <<ForgedToken>>)}}
    \cup {Request("createShoe", NikeHeader, MalformedId,
                  [name |-> "Air", price |-> Num(10), description |-> "d",
                   brand |-> b]) : b \in {"Nike", "Adidas"}}
    \cup {Request("updateShoe", NikeHeader, 1,
                  [name |-> "Air", price |-> NoNum, description |-> Undef,
                   brand |-> Undef]),
          Request("deleteShoe", NikeHeader, 1, NoData)}

\* the request of a second client, which interleaves with the others: it
\* deletes the shoe
BackgroundRequests == {Request("deleteShoe", NikeHeader, 1, NoData)}

\* what a client sends in SpecCalls
RequestsOf(c) == IF c = "c1" THEN CallRequests ELSE BackgroundRequests

\* the request of c goes on: a store call returns or fails
Finish(c) == First(c) \/ Second(c) \/ Fail(c)

\* Requests of every route whose store calls return or fail
NextCalls ==
    \/ \E c \in Clients : \E r \in RequestsOf(c) : Arrive(c, r)
    \/ \E c \in Clients : First(c)
    \/ \E c \in Clients : Second(c)
    \/ \E c \in Clients : Fail(c)

\* Every store call eventually returns or fails, so no handler waits for
\* ever
SpecCalls ==
    /\ InitRace
    /\ [][NextCalls]_vars
    /\ \A c \in Clients : WF_vars(Finish(c))

----------------------------------------------------------------------------
(* Properties *)

\* the token a documented bearer header carries was issued by the server
\* and has not expired at time t
IssuedAndFresh(h, t) ==
    /\ h.present
    /\ StartsWithBearer(h)
    /\ h.parts[1] \in issued
    /\ t < h.parts[1].payload.exp

\* C1: whatever the store holds, List by a brand_user principal returns only
\* shoes of the principal's brand: in the answer to every List request that
\* can be sent, and in the list the last response carries
C1_ListOnlyOwnBrand ==
    /\ \A h \in TokenHeaders :
           GetShoesStep(h).resp.user.role = "brand_user" =>
               /\ GetShoesStep(h).resp.status = 200
               /\ \A s \in GetShoesStep(h).resp.data :
                      s.brand = BrandOf(GetShoesStep(h).resp.user)
    /\ (resp.op = "getShoes" /\ resp.user.role = "brand_user")
           => \A s \in resp.data : s.brand = BrandOf(resp.user)

\* a brand_user was answered a non-empty list while the store also holds a
\* shoe of another brand
C1_Witness ==
    /\ resp.op = "getShoes"
    /\ resp.status = 200
    /\ resp.user.role = "brand_user"
    /\ resp.data # {}
    /\ \E id \in DOMAIN shoes : shoes[id].brand # BrandOf(resp.user)

\* the response is 403 and the request left both stores as they were
Forbidden(st) == st.resp.status = 403 /\ st.shoes = shoes /\ st.users = users

\* C2: a brand_user that creates a shoe for another brand, or updates or
\* deletes a stored shoe of another brand, gets 403 whatever the body holds,
\* and the shoe store is unchanged
C2_ForeignBrandForbidden ==
    \A h \in TokenHeaders :
        (/\ authMiddleware(h, now).next
         /\ authMiddleware(h, now).user.role = "brand_user")
        => /\ \A body \in ShoeBodies :
                  body.brand # BrandOf(authMiddleware(h, now).user)
                      => Forbidden(CreateShoeStep(h, body))
           /\ \A id \in DOMAIN shoes :
                  shoes[id].brand # BrandOf(authMiddleware(h, now).user)
                      => /\ Forbidden(DeleteShoeStep(h, id))
                         /\ \A body \in ShoeBodies :
                                Forbidden(UpdateShoeStep(h, id, body))

\* a brand_user was refused the update of a stored shoe of another brand
C2_Witness ==
    /\ resp.op = "updateShoe"
    /\ resp.status = 403
    /\ resp.message = "Not authorized to update this shoe"
    /\ resp.user.role = "brand_user"
    /\ \E id \in DOMAIN shoes : shoes[id].brand # BrandOf(resp.user)

\* the answers to the requests of SpecGate that bear header h
GateSteps(h) ==
    {GetShoesStep(h), GetUsersStep(h)}
    \cup {DeleteShoeStep(h, id) : id \in ShoeIds}
    \cup {DeleteUserStep(h, id) : id \in UserIds}
    \cup {CreateShoeStep(h, body) : body \in GateShoeBodies}
    \cup {UpdateShoeStep(h, id, body) : id \in ShoeIds, body \in GateShoeBodies}
    \cup {UpdateUserStep(h, id, body) : id \in UserIds, body \in GateUserBodies}

\* C3: on every shoe route and every user-management route a request whose
\* header is missing, does not start with 'Bearer ', or carries a token that
\* the server did not sign or that has expired is answered 401 with no data
\* and both stores unchanged; a handler's response is only ever given to the
\* claims of a token that was issued and is still fresh
C3_GateBeforeHandler ==
    \A h \in Headers :
        \A st \in GateSteps(h) :
            IF IssuedAndFresh(h, now)
            THEN st.resp.status # 401 /\ st.resp.user = h.parts[1].payload
            ELSE /\ st.resp.status = 401
                 /\ st.resp.data = NoData
                 /\ st.resp.user = NoPrincipal
                 /\ st.users = users
                 /\ st.shoes = shoes

\* an expired or forged token was refused on a shoe route, the store not empty
C3_Witness ==
    /\ resp.status = 401
    /\ resp.message = "Invalid token"
    /\ resp.op = "deleteShoe"
    /\ DOMAIN shoes # {}
    /\ now >= TokenTTL

\* the answers to the user-management requests that bear header h
UserSteps(h) ==
    {GetUsersStep(h)}
    \cup {DeleteUserStep(h, id) : id \in UserIds}
    \cup {UpdateUserStep(h, id, body) : id \in UserIds, body \in UpdateUserBodies}

UserOps == {"getUsers", "deleteUser", "updateUser"}

\* C4: getUsers, updateUser and deleteUser run only for a super_admin
\* principal; an authenticated principal of another role gets 403 from the
\* role gate, with no data and the user store unchanged
C4_UserRoutesSuperAdminOnly ==
    /\ \A h \in TokenHeaders :
           \A st \in UserSteps(h) :
               IF authMiddleware(h, now).user.role = "super_admin"
               THEN st.resp.status \in {200, 404, 500}
               ELSE /\ st.resp.status = 403
                    /\ st.resp.message = "Access forbidden: insufficient permissions"
                    /\ st.resp.data = NoData
                    /\ st.users = users
    /\ (resp.op \in UserOps /\ resp.status \in {200, 404, 500})
           => resp.user.role = "super_admin"

\* a brand_user was refused the deletion of a stored user
C4_Witness ==
    /\ resp.op = "deleteUser"
    /\ resp.status = 403
    /\ resp.user.role = "brand_user"
    /\ DOMAIN users # {}

\* the body passes register's presence checks
PassesPresence(body) ==
    /\ ~Falsy(body.name)
    /\ ~Falsy(body.email)
    /\ ~Falsy(body.password)
    /\ (RoleOrDefault(body) = "brand_user" => ~Falsy(body.brand))

\* C5 as stated: every Register request whose email is the email of a stored
\* user is answered DuplicateEmail (400, 'Email already exists.') and the
\* user store is unchanged
C5_Original ==
    \A body \in RegisterBodies, salt \in Salts :
        FindByEmail(users, body.email) # {} =>
            /\ RegisterStep(body, salt).resp.status = 400
            /\ RegisterStep(body, salt).resp.message = "Email already exists."
            /\ RegisterStep(body, salt).users = users

\* C5 as amended: a Register request whose email is the email of a stored
\* user is always answered 400 and leaves the user store unchanged, no two
\* stored users share an email, and the answer is DuplicateEmail exactly when
\* the request passes the presence checks (otherwise it is MissingField)
C5_DuplicateEmail ==
    /\ \A body \in RegisterBodies, salt \in Salts :
           FindByEmail(users, body.email) # {} =>
               /\ RegisterStep(body, salt).resp.status = 400
               /\ RegisterStep(body, salt).users = users
               /\ RegisterStep(body, salt).resp.data = NoData
               /\ (RegisterStep(body, salt).resp.message = "Email already exists.")
                      <=> PassesPresence(body)
    /\ \A i, j \in DOMAIN users : users[i].email = users[j].email => i = j

\* a registration was refused for its email while that email is stored
C5_Witness ==
    /\ resp.op = "register"
    /\ resp.status = 400
    /\ resp.message = "Email already exists."
    /\ DOMAIN users # {}

\* C6: the token a successful registration returns is accepted by the
\* authentication gate at every time of its validity window and decodes to the
\* id, role and brand of the user document that was stored
C6_RegisterTokenMatchesUser ==
    \A body \in RegisterBodies, salt \in Salts :
        RegisterStep(body, salt).resp.status = 201 =>
            /\ RegisterStep(body, salt).resp.data.user.id
                   \in DOMAIN RegisterStep(body, salt).users
            /\ \A t \in RegisterStep(body, salt).resp.data.token.payload.iat ..
                        (RegisterStep(body, salt).resp.data.token.payload.exp - 1) :
                   LET tok == RegisterStep(body, salt).resp.data.token
                       id == RegisterStep(body, salt).resp.data.user.id
                       a == authMiddleware(Header("Bearer", <<tok>>), t)
                   IN  /\ a.next
                       /\ a.user.userId = id
                       /\ a.user.role = RegisterStep(body, salt).users[id].role
                       /\ BrandOf(a.user) = RegisterStep(body, salt).users[id].brand

\* a brand_user has registered and was sent a token
C6_Witness ==
    /\ resp.op = "register"
    /\ resp.status = 201
    /\ resp.data.user.role = "brand_user"
    /\ resp.data.user.id \in DOMAIN users
    /\ users[resp.data.user.id].brand = "Nike"

\* C7: a token the server issued is accepted with exactly its claims on every
\* protected route until it expires, whatever has become of its user: the
\* user routes answer 403 exactly when the token's role is not super_admin,
\* and List is filtered by the token's role and brand
C7_TokenTrustedUntilExpiry ==
    \A tok \in issued :
        now < tok.payload.exp =>
            /\ \A st \in GateSteps(Header("Bearer", <<tok>>)) :
                   st.resp.status # 401 /\ st.resp.user = tok.payload
            /\ \A st \in {GetUsersStep(Header("Bearer", <<tok>>))}
                         \cup {DeleteUserStep(Header("Bearer", <<tok>>), id) : id \in UserIds} :
                   st.resp.status = 403 <=> tok.payload.role # "super_admin"
            /\ GetShoesStep(Header("Bearer", <<tok>>)).resp.data
                   = {ShoeDoc(shoes, id) : id \in
                        {i \in DOMAIN shoes : tok.payload.role = "super_admin"
                                               \/ shoes[i].brand = BrandOf(tok.payload)}}

\* a token issued to a super_admin listed the users after its user had been
\* made a brand_user
C7_Witness ==
    /\ resp.op = "getUsers"
    /\ resp.status = 200
    /\ resp.user.role = "super_admin"
    /\ resp.user.userId \in DOMAIN users
    /\ users[resp.user.userId].role = "brand_user"

\* C8: every stored user whose role is brand_user has a non-empty brand
C8_BrandUserHasBrand ==
    \A id \in DOMAIN users :
        users[id].role = "brand_user" => ~Falsy(users[id].brand)

\* a user that was issued a super_admin token is stored as a brand_user, so
\* updateUser has changed its role
C8_Witness ==
    \E tok \in issued :
        /\ tok.payload.role = "super_admin"
        /\ tok.payload.userId \in DOMAIN users
        /\ users[tok.payload.userId].role = "brand_user"
        /\ resp.op = "updateUser"

\* the stored users the login body's email and password match
LoginMatches(body) ==
    {id \in DOMAIN users : /\ users[id].email = body.email
                           /\ body.password # Undef
                           /\ bcryptCompare(body.password, users[id].password)}

\* C9: Login answers 200 with a token and the public view of the user exactly
\* when a stored user has the email and the password verifies against its
\* hash, and Login leaves the user store unchanged
C9_LoginIffCredentials ==
    \A body \in LoginBodies :
        /\ (LoginStep(body).resp.status = 200) <=> (LoginMatches(body) # {})
        /\ LoginStep(body).users = users
        /\ LoginStep(body).resp.status = 200 =>
               /\ LoginStep(body).resp.data.user.id \in LoginMatches(body)
               /\ LoginStep(body).resp.data.user
                      = UserView(users, LoginStep(body).resp.data.user.id)
               /\ LoginStep(body).resp.data.token.payload.userId
                      = LoginStep(body).resp.data.user.id

\* a login has succeeded
C9_Witness ==
    /\ resp.op = "login"
    /\ resp.status = 200
    /\ resp.data.user.id \in DOMAIN users

\* no stored user has the body's email
UnknownEmail(body) == FindByEmail(users, body.email) = {}

\* a stored user has the body's email and the password does not verify
WrongPassword(body) ==
    FindByEmail(users, body.email) # {} /\ LoginMatches(body) = {}

\* C10: Login gives the same response, 400 'Invalid credentials.', when no
\* user has the email as when the user exists and the password does not
\* verify
C10_SameResponse ==
    \A unknown \in LoginBodies, wrong \in LoginBodies :
        (UnknownEmail(unknown) /\ WrongPassword(wrong)) =>
            /\ LoginStep(unknown).resp = LoginStep(wrong).resp
            /\ LoginStep(wrong).resp.status = 400
            /\ LoginStep(wrong).resp.message = "Invalid credentials."

\* the string-valued fields of a shoe
ShoeStringFields == {"name", "description", "brand"}

\* C11: in a successful Update every field that the body does not supply, or
\* supplies with a falsy value (0 for the price; undefined, null or the empty
\* string for name, description and brand), is stored and returned with the
\* value it had; a field supplied with another value takes it, and no other
\* shoe changes.  In particular { price: 0 } leaves the price as it was.
C11_FalsyFieldsKept ==
    \A h \in TokenHeaders, id \in ShoeIds, body \in UpdateShoeBodies :
        LET st == UpdateShoeStep(h, id, body)
        IN  st.resp.status = 200 =>
                /\ DOMAIN st.shoes = DOMAIN shoes
                /\ \A i \in DOMAIN shoes \ {id} : st.shoes[i] = shoes[i]
                /\ \A f \in ShoeStringFields :
                       /\ st.shoes[id][f] = IF Falsy(body[f]) THEN shoes[id][f]
                                            ELSE body[f]
                       /\ st.resp.data[f] = st.shoes[id][f]
                /\ st.shoes[id].price = IF body.price \in {NoNum, Num(0)}
                                        THEN shoes[id].price ELSE body.price
                /\ st.resp.data.price = st.shoes[id].price

\* the last response is the answer to an Update with { price: 0 } of a stored
\* shoe whose price is not 0 and whose description is set
C11_Witness ==
    /\ resp.op = "updateShoe"
    /\ resp.status = 200
    /\ \E h \in TokenHeaders, id \in DOMAIN shoes, body \in UpdateShoeBodies :
           /\ body.price = Num(0)
           /\ body.description = ""
           /\ shoes[id].price # Num(0)
           /\ shoes[id].description = "d"
           /\ UpdateShoeStep(h, id, body).resp = resp

\* C12: Update and Delete on an id for which no shoe is stored are answered
\* 404 and change nothing, whatever the role of the principal; and a Delete
\* that succeeds removes the shoe, so that a second Delete of the id is such
\* a request
C12_MissingShoeNotFound ==
    \A h \in TokenHeaders :
        /\ \A id \in ShoeIds \ DOMAIN shoes :
               /\ DeleteShoeStep(h, id).resp.status = 404
               /\ DeleteShoeStep(h, id).shoes = shoes
               /\ \A body \in UpdateShoeBodies :
                      /\ UpdateShoeStep(h, id, body).resp.status = 404
                      /\ UpdateShoeStep(h, id, body).shoes = shoes
        /\ \A id \in DOMAIN shoes :
               DeleteShoeStep(h, id).resp.status = 200
                   => id \notin DOMAIN DeleteShoeStep(h, id).shoes

\* name, email or password is missing from the body, or empty
MissingCredential(body) ==
    Falsy(body.name) \/ Falsy(body.email) \/ Falsy(body.password)

\* C13: a Register request without name, email or password is answered 400
\* MissingField; so is one that has them, whose role is brand_user or is
\* omitted, and that has no brand; in both cases the response carries no
\* token and the user store is unchanged
C13_MissingFieldRefused ==
    \A body \in RegisterBodies, salt \in Salts :
        LET st == RegisterStep(body, salt)
        IN  /\ MissingCredential(body) =>
                   /\ st.resp.status = 400
                   /\ st.resp.message = "Name, email, and password are required."
                   /\ st.resp.data = NoData
                   /\ st.users = users
            /\ (/\ ~MissingCredential(body)
                /\ body.role \in {Undef, "brand_user"}
                /\ Falsy(body.brand)) =>
                   /\ st.resp.status = 400
                   /\ st.resp.message = "Brand is required for brand users."
                   /\ st.resp.data = NoData
                   /\ st.users = users

\* a registration without a brand was refused after another one had stored
\* a user and handed out its token
C13_Witness ==
    /\ resp.op = "register"
    /\ resp.status = 400
    /\ resp.message = "Brand is required for brand users."
    /\ DOMAIN users # {}
    /\ issued # {}

\* C14: List by a super_admin principal is answered 200 with every stored
\* shoe, of every brand: one document per stored id, with the stored fields
C14_AdminListsAll ==
    /\ \A h \in TokenHeaders :
           authMiddleware(h, now).user.role = "super_admin" =>
               /\ GetShoesStep(h).resp.status = 200
               /\ GetShoesStep(h).resp.data
                      = {[id |-> id] @@ shoes[id] : id \in DOMAIN shoes}
               /\ Cardinality(GetShoesStep(h).resp.data)
                      = Cardinality(DOMAIN shoes)
    /\ (resp.op = "getShoes" /\ resp.user.role = "super_admin")
           => {d.id : d \in resp.data} = DOMAIN shoes

\* a super_admin was answered a list with shoes of two brands
C14_Witness ==
    /\ resp.op = "getShoes"
    /\ resp.status = 200
    /\ resp.user.role = "super_admin"
    /\ \E a, b \in resp.data : a.brand = "Nike" /\ b.brand = "Adidas"

\* an error response
IsError(r) == r.status \in {400, 401, 403, 404, 500}

\* every request that would be answered with an error would leave both
\* stores as they are
ErrorsKeepStores ==
    \A r \in AllRequests :
        LET st == StepOf(r)
        IN  IsError(st.resp) => st.users = users /\ st.shoes = shoes

\* in the state an error response was given in, a request of that route is
\* answered with that same response and leaves the stores as they are
ErrorRepeats ==
    IsError(resp) =>
        \E r \in AllRequests :
            /\ r.op = resp.op
            /\ StepOf(r) = [resp |-> resp, users |-> users, shoes |-> shoes]

\* a step that ends in an error changes nothing but the response: the
\* stores, the ids, the clock and the tokens are what a handler's answer
\* depends on besides the request
ErrorKeepsState ==
    IsError(resp') =>
        UNCHANGED <<users, shoes, nextUserId, nextShoeId, now, issued>>

\* C15: a request that ends in 400, 401, 403, 404 or 500 leaves the user
\* store and the shoe store as they were (no handler stores part of its
\* effect and then reports an error), and the same request sent again in the
\* state it left gets the same error
C15_ErrorsChangeNothing ==
    /\ [](ErrorsKeepStores /\ ErrorRepeats)
    /\ [][ErrorKeepsState]_vars

\* the last response is the 500 of an Update of a stored shoe whose merged
\* document failed validation
C15_Witness ==
    /\ resp.op = "updateShoe"
    /\ resp.status = 500
    /\ \E r \in AllRequests :
           /\ r.op = "updateShoe"
           /\ r.id \in DOMAIN shoes
           /\ StepOf(r).resp = resp

\* the fields of a public user view
PublicFields == {"id", "name", "email", "brand", "role"}

\* C16: the user that a successful Register or Login returns, and every user
\* in the list that getUsers returns, has the public fields only: none holds
\* the password hash, and the token's claims do not hold it either
C16_ViewsWithoutPassword ==
    /\ \A body \in RegisterBodies, salt \in Salts :
           LET st == RegisterStep(body, salt)
           IN  st.resp.status = 201 =>
                   /\ DOMAIN st.resp.data = {"user", "token"}
                   /\ DOMAIN st.resp.data.user = PublicFields
                   /\ "password" \notin DOMAIN st.resp.data.token.payload
    /\ \A body \in LoginBodies :
           LET st == LoginStep(body)
           IN  st.resp.status = 200 =>
                   /\ DOMAIN st.resp.data = {"user", "token"}
                   /\ DOMAIN st.resp.data.user = PublicFields
                   /\ "password" \notin DOMAIN st.resp.data.token.payload
    /\ \A h \in TokenHeaders :
           LET st == GetUsersStep(h)
           IN  st.resp.status = 200 =>
                   /\ {u.id : u \in st.resp.data} = DOMAIN users
                   /\ \A u \in st.resp.data : DOMAIN u = PublicFields

\* a super_admin was answered the list of two stored users, each of which
\* has a password hash in the store
C16_Witness ==
    /\ resp.op = "getUsers"
    /\ resp.status = 200
    /\ Cardinality(resp.data) = 2
    /\ \A u \in resp.data :
           u.id \in DOMAIN users /\ users[u.id].password.pw = "pw1"

\* C17: every stored shoe has a price, and the price is a number that is
\* not negative
C17_PriceNonNegative ==
    \A id \in DOMAIN shoes :
        /\ shoes[id].price # NoNum
        /\ shoes[id].price[1] >= 0

\* the two roles of the spec
SpecRoles == {"brand_user", "super_admin"}

\* C18: every stored user has the role brand_user or super_admin; a Register
\* request with another role creates no user, and an updateUser request with
\* another role leaves the user store as it is
C18_RoleInEnum ==
    /\ \A id \in DOMAIN users : users[id].role \in SpecRoles
    /\ \A body \in RegisterBodies, salt \in Salts :
           body.role \notin SpecRoles \cup {Undef} =>
               /\ RegisterStep(body, salt).resp.status # 201
               /\ RegisterStep(body, salt).users = users
    /\ \A h \in TokenHeaders, id \in UserIds, body \in UpdateUserBodies :
           body.role \notin SpecRoles \cup {Undef} =>
               /\ UpdateUserStep(h, id, body).resp.status # 200
               /\ UpdateUserStep(h, id, body).users = users

\* the last response is the 500 of an updateUser that asked for the role
\* manager for a stored user
C18_Witness ==
    /\ resp.op = "updateUser"
    /\ resp.status = 500
    /\ \E h \in TokenHeaders, id \in DOMAIN users, body \in UpdateUserBodies :
           /\ body.role = "manager"
           /\ UpdateUserStep(h, id, body).resp = resp

\* C19: an Update by a brand_user principal of a shoe of its own brand that
\* asks for another brand is answered 403 and the shoe store is unchanged;
\* and after every Update that a brand_user is answered 200 for, the shoe is
\* stored, and returned, with the brand of the principal
C19_NoBrandHopping ==
    \A h \in TokenHeaders :
        LET user == authMiddleware(h, now).user
        IN  user.role = "brand_user" =>
                \A id \in DOMAIN shoes, body \in UpdateShoeBodies :
                    LET st == UpdateShoeStep(h, id, body)
                    IN  /\ (/\ shoes[id].brand = BrandOf(user)
                            /\ ~Falsy(body.brand)
                            /\ body.brand # BrandOf(user)) =>
                               /\ st.resp.status = 403
                               /\ st.resp.message
                                      = "Cannot change shoe brand to another brand"
                               /\ st.shoes = shoes
                        /\ st.resp.status = 200 =>
                               /\ st.shoes[id].brand = BrandOf(user)
                               /\ st.resp.data.brand = BrandOf(user)

\* a brand_user that has a shoe of its own brand in the store was refused
\* the change of a shoe's brand
C19_Witness ==
    /\ resp.op = "updateShoe"
    /\ resp.status = 403
    /\ resp.message = "Cannot change shoe brand to another brand"
    /\ resp.user.role = "brand_user"
    /\ \E id \in DOMAIN shoes : shoes[id].brand = BrandOf(resp.user)

\* bodies of updateUser, and bodies whose brand and role are falsy
FrameUserBodies ==
    UpdateUserBodies \cup [brand : {"", Null}, role : {"", Null}]

\* a successful updateUser leaves name, email and password hash of its
\* target, every other user and the shoe store as they were; the target's
\* brand and role take the body's value, or keep theirs when the body's value
\* is missing or falsy
UpdateUserFrame(h, id, body) ==
    LET st == UpdateUserStep(h, id, body)
    IN  st.resp.status = 200 =>
            /\ id \in DOMAIN users
            /\ DOMAIN st.users = DOMAIN users
            /\ \A i \in DOMAIN users \ {id} : st.users[i] = users[i]
            /\ st.users[id].name = users[id].name
            /\ st.users[id].email = users[id].email
            /\ st.users[id].password = users[id].password
            /\ st.users[id].brand = IF Falsy(body.brand) THEN users[id].brand
                                    ELSE body.brand
            /\ st.users[id].role = IF Falsy(body.role) THEN users[id].role
                                   ELSE body.role
            /\ st.shoes = shoes

\* C20: a successful updateUser changes only the brand and the role of its
\* target (a missing or falsy brand or role keeps its value), and updateUser
\* and deleteUser by a super_admin on an id under which no user is stored are
\* answered 404 and change nothing
C20_UpdateUserFrame ==
    \A h \in TokenHeaders, id \in UserIds :
        /\ \A body \in FrameUserBodies : UpdateUserFrame(h, id, body)
        /\ (authMiddleware(h, now).user.role = "super_admin"
              /\ id \notin DOMAIN users) =>
               /\ DeleteUserStep(h, id).resp.status = 404
               /\ DeleteUserStep(h, id).users = users
               /\ \A body \in FrameUserBodies :
                      /\ UpdateUserStep(h, id, body).resp.status = 404
                      /\ UpdateUserStep(h, id, body).users = users

----------------------------------------------------------------------------
(* C23: self-registration and the super_admin role *)

\* C23: in a run that starts from a store without users, where nobody holds
\* a token and so no super_admin exists who could grant the role, no user is
\* stored with role super_admin and no token with role super_admin is issued:
\* Register does not take the role super_admin from the body of an
\* unauthenticated request
C23_NoSelfMadeAdmin ==
    /\ \A id \in DOMAIN users : users[id].role # "super_admin"
    /\ \A tok \in issued : tok.payload.role # "super_admin"
    /\ (resp.op = "register" /\ resp.status = 201) =>
           /\ resp.data.user.role # "super_admin"
           /\ resp.data.token.payload.role # "super_admin"

----------------------------------------------------------------------------
(* C25: password hashes in responses *)

\* C25: no response holds a stored password hash: not the user that Register
\* or Login returns, not a user of the list of getUsers, and not the user
\* that a successful updateUser returns
C25_NoHashInResponse ==
    /\ (resp.op = "register" /\ resp.status = 201) =>
           "password" \notin DOMAIN resp.data.user
    /\ (resp.op = "login" /\ resp.status = 200) =>
           "password" \notin DOMAIN resp.data.user
    /\ (resp.op = "getUsers" /\ resp.status = 200) =>
           \A u \in resp.data : "password" \notin DOMAIN u
    /\ (resp.op = "updateUser" /\ resp.status = 200) =>
           "password" \notin DOMAIN resp.data

----------------------------------------------------------------------------
(* C24: what a brand_user learns of the shoes of other brands *)

\* the ids under which the store holds a shoe of another brand than the
\* principal's
ForeignIds(user, store) ==
    {i \in DOMAIN store : store[i].brand # BrandOf(user)}

\* what the client sees of a handler's outcome
Seen(o) == [status |-> o.status, message |-> o.message, data |-> o.data]

\* the principals of the tokens in use that are brand users
BrandPrincipals ==
    {authMiddleware(h, now).user : h \in {k \in TokenHeaders :
        /\ authMiddleware(k, now).next
        /\ authMiddleware(k, now).user.role = "brand_user"}}

\* C24 as stated: a brand_user gets the same response to every List,
\* Create, Update and Delete request in the current store and in each store
\* that has the same shoes of its brand and lacks some shoes of other brands
C24_Original ==
    \A user \in BrandPrincipals :
        \A F \in SUBSET ForeignIds(user, shoes) :
            LET other == Without(shoes, F)
            IN  /\ Seen(getShoes(user, other)) = Seen(getShoes(user, shoes))
                /\ \A body \in CreateShoeBodies :
                       Seen(createShoe(user, body, other, nextShoeId))
                         = Seen(createShoe(user, body, shoes, nextShoeId))
                /\ \A id \in ShoeIds :
                       /\ Seen(deleteShoe(user, id, other))
                            = Seen(deleteShoe(user, id, shoes))
                       /\ \A body \in UpdateShoeBodies :
                              Seen(updateShoe(user, id, body, other))
                                = Seen(updateShoe(user, id, body, shoes))

\* the refusal of a request on the shoe of another brand: 403, no data, no
\* change; where the shoe is not stored the same request is answered 404
RefusedAsForeign(o, without, store, message) ==
    /\ Seen(o) = [status |-> 403, message |-> message, data |-> NoData]
    /\ o.shoes = store
    /\ Seen(without) = [status |-> 404, message |-> "Shoe not found",
                        data |-> NoData]

\* C24: in two stores that hold the same shoes of a brand_user's brand and
\* differ in shoes of other brands, the brand_user gets the same response to
\* every List and Create request and to every Update and Delete request on
\* an id that holds no shoe of another brand; on an id that holds a shoe of
\* another brand Update and Delete are answered 403 without data and change
\* nothing, where they are answered 404 if no shoe is stored under the id:
\* the response tells that a shoe of another brand exists, and nothing of it
C24_OwnBrandView ==
    \A user \in BrandPrincipals :
        \A F \in SUBSET ForeignIds(user, shoes) :
            LET other == Without(shoes, F)
            IN  /\ Seen(getShoes(user, other)) = Seen(getShoes(user, shoes))
                /\ \A body \in CreateShoeBodies :
                       Seen(createShoe(user, body, other, nextShoeId))
                         = Seen(createShoe(user, body, shoes, nextShoeId))
                /\ \A id \in ShoeIds \ F :
                       /\ Seen(deleteShoe(user, id, other))
                            = Seen(deleteShoe(user, id, shoes))
                       /\ \A body \in UpdateShoeBodies :
                              Seen(updateShoe(user, id, body, other))
                                = Seen(updateShoe(user, id, body, shoes))
                /\ \A id \in F :
                       /\ RefusedAsForeign(deleteShoe(user, id, shoes),
                              deleteShoe(user, id, other), shoes,
                              "Not authorized to delete this shoe")
                       /\ \A body \in UpdateShoeBodies :
                              RefusedAsForeign(updateShoe(user, id, body, shoes),
                                  updateShoe(user, id, body, other), shoes,
                                  "Not authorized to update this shoe")

\* a brand_user that has a shoe of its own brand in the store was refused
\* the deletion of a stored shoe of another brand
C24_Witness ==
    /\ resp.op = "deleteShoe"
    /\ resp.status = 403
    /\ resp.user.role = "brand_user"
    /\ ForeignIds(resp.user, shoes) # {}
    /\ \E i \in DOMAIN shoes : shoes[i].brand = BrandOf(resp.user)

----------------------------------------------------------------------------
(* C21, C22: handlers that interleave at their store calls *)

\* the step is the save or deleteOne of a shoe handler run for a brand_user,
\* and it changes the shoe store
BrandUserWrites(c) ==
    /\ calls[c].pc = "loaded"
    /\ calls'[c].pc = "done"
    /\ calls[c].req.op \in {"updateShoe", "deleteShoe"}
    /\ calls[c].user.role = "brand_user"
    /\ shoes' # shoes

\* C21: whatever other requests ran between its load and its write, the
\* save or deleteOne of a brand_user's updateShoe or deleteShoe changes only
\* a shoe whose stored brand, at the moment of the write, is the brand of
\* the principal
C21_WritesOwnBrandOnly ==
    [][\A c \in Clients :
          BrandUserWrites(c) =>
              /\ calls[c].req.id \in DOMAIN shoes
              /\ shoes[calls[c].req.id].brand = BrandOf(calls[c].user)]_vars

\* C22: however the Register requests that carry the same email interleave,
\* at most one user with that email is stored, and each of them that does
\* not create the user (every Register body sent here is complete and
\* valid, and every store call returns) is answered 400 'Email already
\* exists.'
C22_DuplicateAnsweredAlways ==
    /\ \A i, j \in DOMAIN users : users[i].email = users[j].email => i = j
    /\ (resp.op = "register" /\ resp.status # 201) =>
           resp.status = 400 /\ resp.message = "Email already exists."

----------------------------------------------------------------------------
(* C26: one response to every request *)

\* a request that is under way has no response yet, a request that is done
\* has exactly one
OneResponse ==
    \A c \in Clients :
        /\ calls[c].pc \in {"start", "loaded"} => calls[c].sent = 0
        /\ calls[c].pc = "done" => calls[c].sent = 1

\* a request that is done takes no further step and gets no further
\* response; a store call that fails ends the request with status 500 and
\* both stores as they were
DoneIsDone ==
    \A c \in Clients :
        /\ calls[c].pc = "done" =>
               calls'[c] = calls[c] \/ calls'[c].pc = "start"
        /\ Fail(c) =>
               /\ resp'.status = 500
               /\ calls'[c].pc = "done"
               /\ users' = users /\ shoes' = shoes

\* C26: if every store call returns or fails, every request of every route
\* is answered: the gates and the handler send exactly one response on every
\* path, a request that is answered takes no further step, a store call
\* that fails is answered 500 and is not made again, and no request stays
\* under way for ever (a request under way can only end by being answered,
\* so each client is again and again without a request under way)
C26_ExactlyOneResponse ==
    /\ []OneResponse
    /\ [][DoneIsDone]_vars
    /\ \A c \in Clients : []<>(calls[c].pc \notin {"start", "loaded"})

\* a request was answered 500 after a store call of its handler failed
\* between its load and its write, while another request is under way
C26_Witness ==
    \E c, d \in Clients :
        /\ calls[c].pc = "done"
        /\ calls[c].sent = 1
        /\ resp.op = "updateShoe"
        /\ resp.status = 500
        /\ resp.user.role = "brand_user"
        /\ 1 \in DOMAIN shoes
        /\ calls[d].pc = "loaded"

====
